---- MODULE Spec2Model ----
(***************************************************************************)
(* Model of di_dash.py (crdcj/di-panel): the Normalizer                    *)
(* format_di_dataframe, the Variation Calculator calculate_variation and   *)
(* the Streamlit script that drives them (plot_graphs, the live-refresh    *)
(* gate and the periodic fragment).                                        *)
(*                                                                         *)
(* A DataFrame is [cols |-> set of column names, rows |-> sequence of      *)
(* rows], a row being a function from the column names to values.          *)
(* ExpirationDate holds a Timestamp [year, month, day, hour] in a table    *)
(* the provider returns and a date [year, month, day] after line 53.       *)
(* A rate column holds float64 values: the table stores the rate n for the  *)
(* double nearest to n/10,000 (1000 is the double 0.10), and line 68 is     *)
(* computed on those doubles in IEEE 754 binary64, round to nearest even.   *)
(***************************************************************************)
EXTENDS Integers, Sequences, FiniteSets, TLC

(* ---------------- bounds ---------------- *)

\* most rows in a table the provider returns
MaxRows == 2

\* most invocations (script runs and fragment re-executions) in a session
MaxRuns == 3

Years == {2026}

Months == {3, 6}

DaysOfMonth == {1, 15}

Hours == {0}

\* 0.08 and 0.10
Rates == {800, 1000}

\* calendar days the script can run on or the user can select
CalendarDays == {1, 2}

(* ---------------- values ---------------- *)

RateColumns == {"SettlementRate", "CurrentRate"}

Timestamps == [year : Years, month : Months, day : DaysOfMonth, hour : Hours]

Dates == [year : Years, month : Months, day : DaysOfMonth]

SeqsUpTo(S, n) == UNION {[1..k -> S] : k \in 0..n}

MkRow(d, ra) ==
    [c \in {"ExpirationDate"} \cup DOMAIN ra |->
        IF c = "ExpirationDate" THEN d ELSE ra[c]]

\* the tables yd.futures can return: ExpirationDate and any of the rate columns
RawTablesWith(rc, stamps, rates, n) ==
    {[cols |-> {"ExpirationDate"} \cup rc, rows |-> rs] :
        rs \in SeqsUpTo({MkRow(d, ra) : d \in stamps, ra \in [rc -> rates]}, n)}

RawTables ==
    UNION {RawTablesWith(rc, Timestamps, Rates, MaxRows) : rc \in SUBSET RateColumns}

NoTable == [cols |-> {}, rows |-> <<>>]

\* the recognized rate columns a table has (df.columns, lines 45, 47 and 193)
RateColsOf(t) == t.cols \cap RateColumns

(* ---------------- format_di_dataframe ---------------- *)

\* rename that adds the new column and keeps the old one
rename_keeps_old(df, old, new) ==
    LET cs == df.cols \cup {new}
    IN  [cols |-> cs,
         rows |-> [i \in DOMAIN df.rows |->
                     [c \in cs |-> IF c = new THEN df.rows[i][old]
                                              ELSE df.rows[i][c]]]]

\* df.rename(columns={old: new}, inplace=True)
rename(df, old, new) ==
    LET cs == (df.cols \ {old}) \cup {new}
    IN  [cols |-> cs,
         rows |-> [i \in DOMAIN df.rows |->
                     [c \in cs |-> IF c = new THEN df.rows[i][old]
                                              ELSE df.rows[i][c]]]]

\* x.replace(day=1)
replace_day(x) == [x EXCEPT !.day = 1]

\* Timestamp.date(): the calendar date, without the time of day
to_date(x) == [year |-> x.year, month |-> x.month, day |-> x.day]

\* line 52: df[col] = df[col].apply(lambda x: x.replace(day=1))
apply_replace_day(df, col) ==
    [df EXCEPT !.rows = [i \in DOMAIN df.rows |->
                           [df.rows[i] EXCEPT ![col] = replace_day(df.rows[i][col])]]]

\* line 53: df[col] = df[col].dt.date
apply_dt_date(df, col) ==
    [df EXCEPT !.rows = [i \in DOMAIN df.rows |->
                           [df.rows[i] EXCEPT ![col] = to_date(df.rows[i][col])]]]

\* a filter that drops the first row that is not accepted and keeps the rest
query_first_only(df, maturities) ==
    LET bad == {i \in DOMAIN df.rows : df.rows[i]["ExpirationDate"] \notin maturities}
        first == IF bad = {} THEN 0 ELSE CHOOSE i \in bad : \A j \in bad : i <= j
    IN  [df EXCEPT !.rows =
            SubSeq(df.rows, 1, first - 1) \o SubSeq(df.rows, first + 1, Len(df.rows))]

\* df.query("ExpirationDate in @pre_maturities", inplace=True)
query(df, maturities) ==
    [df EXCEPT !.rows =
        SelectSeq(df.rows, LAMBDA r : r["ExpirationDate"] \in maturities)]

\* the filter applied to the dates as fetched, the truncation after it
normalize_dates_filter_first(df, maturities) ==
    apply_replace_day(query(apply_dt_date(df, "ExpirationDate"), maturities),
                      "ExpirationDate")

\* lines 52-55: truncate to the first of the month, convert to date, filter
normalize_dates(df, maturities) ==
    query(apply_dt_date(apply_replace_day(df, "ExpirationDate"), "ExpirationDate"),
          maturities)

\* a Normalizer that raises when both rate columns are present
format_rejects_both(df, maturities) ==
    IF RateColumns \subseteq df.cols \/ df.cols \cap RateColumns = {}
    THEN [raised |-> TRUE, df |-> df, ret |-> NoTable]
    ELSE LET old == CHOOSE c \in RateColumns : c \in df.cols
             out == normalize_dates(rename(df, old, "DIRate"), maturities)
         IN  [raised |-> FALSE, df |-> out, ret |-> out]

\* a Normalizer that works on a copy and leaves the object passed in alone
format_on_copy(df, maturities) ==
    IF "SettlementRate" \in df.cols
    THEN [raised |-> FALSE, df |-> df,
          ret |-> normalize_dates(rename(df, "SettlementRate", "DIRate"), maturities)]
    ELSE IF "CurrentRate" \in df.cols
    THEN [raised |-> FALSE, df |-> df,
          ret |-> normalize_dates(rename(df, "CurrentRate", "DIRate"), maturities)]
    ELSE [raised |-> TRUE, df |-> df, ret |-> NoTable]

\* The outcome of format_di_dataframe(df, pre_maturities): whether it raised
\* ValueError, the content of the object passed in after the call (the
\* function works in place), and the value returned (that same object).
format_di_dataframe(df, maturities) ==
    IF "SettlementRate" \in df.cols
    THEN LET out == normalize_dates(rename(df, "SettlementRate", "DIRate"), maturities)
         IN  [raised |-> FALSE, df |-> out, ret |-> out]
    ELSE IF "CurrentRate" \in df.cols
    THEN LET out == normalize_dates(rename(df, "CurrentRate", "DIRate"), maturities)
         IN  [raised |-> FALSE, df |-> out, ret |-> out]
    ELSE [raised |-> TRUE, df |-> df, ret |-> NoTable]

(* ---------------- calculate_variation ---------------- *)

\* basis points per unit of rate (line 68)
BpsFactor == 10000

\* the columns of row, renamed with the suffix
with_suffix(row, cs, suffix) ==
    [n \in {c \o suffix : c \in cs} |-> row[CHOOSE c \in cs : c \o suffix = n]]

restrict(row, cs) == [c \in cs |-> row[c]]

\* one row of the merge: the key, then the columns of the left and of the
\* right row, those the two tables share carrying the suffixes
merge_row(l, r, lcols, rcols, key) ==
    LET overlap == (lcols \cap rcols) \ {key}
    IN  (key :> l[key])
        @@ with_suffix(l, overlap, "Final")
        @@ restrict(l, lcols \ (overlap \cup {key}))
        @@ with_suffix(r, overlap, "Initial")
        @@ restrict(r, rcols \ (overlap \cup {key}))

merged_cols(lcols, rcols, key) ==
    LET overlap == (lcols \cap rcols) \ {key}
    IN  {key} \cup {c \o "Final" : c \in overlap} \cup {c \o "Initial" : c \in overlap}
        \cup (lcols \ overlap) \cup (rcols \ overlap)

\* the rows of right that match one row of left, in right's order
matches(l, right, lcols, rcols, key) ==
    LET hits == SelectSeq(right, LAMBDA r : r[key] = l[key])
    IN  [j \in DOMAIN hits |-> merge_row(l, hits[j], lcols, rcols, key)]

RECURSIVE merge_rows(_, _, _, _, _)
\* inner join, in the order of the left keys
merge_rows(left, right, lcols, rcols, key) ==
    IF left = <<>> THEN <<>>
    ELSE matches(Head(left), right, lcols, rcols, key)
         \o merge_rows(Tail(left), right, lcols, rcols, key)

\* the rows of left that match one row of right, in left's order
matches_of_right(r, left, lcols, rcols, key) ==
    LET hits == SelectSeq(left, LAMBDA l : l[key] = r[key])
    IN  [j \in DOMAIN hits |-> merge_row(hits[j], r, lcols, rcols, key)]

RECURSIVE merge_rows_by_right(_, _, _, _, _)
merge_rows_by_right(left, right, lcols, rcols, key) ==
    IF right = <<>> THEN <<>>
    ELSE matches_of_right(Head(right), left, lcols, rcols, key)
         \o merge_rows_by_right(left, Tail(right), lcols, rcols, key)

\* an inner join in the order of the right keys
merge_right_order(left, right, key) ==
    [cols |-> merged_cols(left.cols, right.cols, key),
     rows |-> merge_rows_by_right(left.rows, right.rows, left.cols, right.cols, key)]

\* pd.merge(left, right, on=key, suffixes=("Final", "Initial"))
merge(left, right, key) ==
    [cols |-> merged_cols(left.cols, right.cols, key),
     rows |-> merge_rows(left.rows, right.rows, left.cols, right.cols, key)]

(* ---------------- float64 arithmetic (line 68) ---------------- *)

\* bits of the significand of a float64
MantissaBits == 53

\* A natural number is the sequence of its digits in base Base, lowest
\* first, the highest not 0. A float64 is [neg, man, exp]: the value
\* (-1)^neg * man * 2^exp, man having MantissaBits bits, or no digit for zero.
\* The values of the model are far from the subnormal and the overflow range.
Base == 2^15

RECURSIVE width(_)
\* the number of bits of n
width(n) == IF n = 0 THEN 0 ELSE 1 + width(n \div 2)

DigitBits == width(Base - 1)

RECURSIVE digits(_)
digits(n) == IF n = 0 THEN <<>> ELSE <<n % Base>> \o digits(n \div Base)

RECURSIVE number(_)
number(a) == IF a = <<>> THEN 0 ELSE Head(a) + Base * number(Tail(a))

RECURSIVE strip(_)
strip(a) ==
    IF a = <<>> THEN <<>>
    ELSE IF a[Len(a)] = 0 THEN strip(SubSeq(a, 1, Len(a) - 1)) ELSE a

bit_width(a) == IF a = <<>> THEN 0 ELSE DigitBits * (Len(a) - 1) + width(a[Len(a)])

RECURSIVE add_digits(_, _, _)
add_digits(a, b, carry) ==
    IF a = <<>> /\ b = <<>> THEN (IF carry = 0 THEN <<>> ELSE <<carry>>)
    ELSE <<((IF a = <<>> THEN 0 ELSE Head(a)) + (IF b = <<>> THEN 0 ELSE Head(b))
            + carry) % Base>>
         \o add_digits(IF a = <<>> THEN a ELSE Tail(a),
                       IF b = <<>> THEN b ELSE Tail(b),
                       ((IF a = <<>> THEN 0 ELSE Head(a))
                        + (IF b = <<>> THEN 0 ELSE Head(b)) + carry) \div Base)

RECURSIVE sub_digits(_, _, _)
\* a - b - borrow, for a >= b + borrow; the result may end in zeros
sub_digits(a, b, borrow) ==
    IF a = <<>> THEN <<>>
    ELSE <<(Head(a) - (IF b = <<>> THEN 0 ELSE Head(b)) - borrow) % Base>>
         \o sub_digits(Tail(a), IF b = <<>> THEN b ELSE Tail(b),
                       IF Head(a) - (IF b = <<>> THEN 0 ELSE Head(b)) - borrow < 0
                       THEN 1 ELSE 0)

RECURSIVE less_digits(_, _)
\* a < b
less_digits(a, b) ==
    IF Len(a) # Len(b) THEN Len(a) < Len(b)
    ELSE IF a = <<>> THEN FALSE
    ELSE IF a[Len(a)] # b[Len(b)] THEN a[Len(a)] < b[Len(b)]
    ELSE less_digits(SubSeq(a, 1, Len(a) - 1), SubSeq(b, 1, Len(b) - 1))

RECURSIVE mul_digit(_, _, _)
\* a * n + carry, for a digit n
mul_digit(a, n, carry) ==
    IF a = <<>> THEN (IF carry = 0 THEN <<>> ELSE <<carry>>)
    ELSE <<(Head(a) * n + carry) % Base>>
         \o mul_digit(Tail(a), n, (Head(a) * n + carry) \div Base)

RECURSIVE mul_digits(_, _)
mul_digits(a, b) ==
    IF b = <<>> \/ a = <<>> THEN <<>>
    ELSE add_digits(mul_digit(a, Head(b), 0), <<0>> \o mul_digits(a, Tail(b)), 0)

RECURSIVE div_digit(_, _, _, _)
\* the quotient and the remainder of a by d, d below Base, by long division
\* from the highest digit down; q and rem are those of the digits taken so far
div_digit(a, d, q, rem) ==
    IF a = <<>> THEN [q |-> strip(q), r |-> rem]
    ELSE div_digit(SubSeq(a, 1, Len(a) - 1), d,
                   <<(rem * Base + a[Len(a)]) \div d>> \o q,
                   (rem * Base + a[Len(a)]) % d)

\* a * 2^k
shift_left(a, k) ==
    IF a = <<>> \/ k <= 0 THEN a
    ELSE [i \in 1..(k \div DigitBits) |-> 0] \o mul_digit(a, 2^(k % DigitBits), 0)

\* a \div 2^k
shift_right(a, k) ==
    IF k \div DigitBits >= Len(a) THEN <<>>
    ELSE div_digit(SubSeq(a, (k \div DigitBits) + 1, Len(a)), 2^(k % DigitBits), <<>>, 0).q

\* bit i of a, bit 0 being the lowest
bit(a, i) ==
    IF i \div DigitBits >= Len(a) THEN 0
    ELSE (a[(i \div DigitBits) + 1] \div 2^(i % DigitBits)) % 2

\* a % 2^k # 0
low_bits_set(a, k) ==
    \/ \E j \in 1..(k \div DigitBits) : j <= Len(a) /\ a[j] # 0
    \/ /\ k \div DigitBits < Len(a)
       /\ a[(k \div DigitBits) + 1] % 2^(k % DigitBits) # 0

zero == [neg |-> FALSE, man |-> <<>>, exp |-> 0]

\* man * 2^exp (and sticky: something nonzero below it), rounded to
\* MantissaBits bits, to nearest, ties to even
round_bits(neg, man, exp, sticky) ==
    LET n == strip(man)
        t == bit_width(n) - MantissaBits
    IN  IF n = <<>> THEN zero
        ELSE IF t <= 0 THEN [neg |-> neg, man |-> shift_left(n, -t), exp |-> exp + t]
        ELSE LET kept == shift_right(n, t)
                 below == sticky \/ low_bits_set(n, t - 1)
                 up == bit(n, t - 1) = 1 /\ (below \/ bit(kept, 0) = 1)
                 m == IF up THEN add_digits(kept, <<1>>, 0) ELSE kept
             IN  IF bit_width(m) > MantissaBits
                 THEN [neg |-> neg, man |-> shift_right(m, 1), exp |-> exp + t + 1]
                 ELSE [neg |-> neg, man |-> m, exp |-> exp + t]

\* float(n / d) for naturals n and d, 0 < d < Base: the double nearest to n/d
to_double(n, d) ==
    LET k == MantissaBits + 2 + width(d)
        qr == div_digit(shift_left(digits(n), k), d, <<>>, 0)
    IN  round_bits(FALSE, qr.q, -k, qr.r # 0)

\* a + b
float_add(a, b) ==
    IF a.man = <<>> THEN b
    ELSE IF b.man = <<>> THEN a
    ELSE LET e == IF a.exp < b.exp THEN a.exp ELSE b.exp
             x == shift_left(a.man, a.exp - e)
             y == shift_left(b.man, b.exp - e)
         IN  IF a.neg = b.neg THEN round_bits(a.neg, add_digits(x, y, 0), e, FALSE)
             ELSE IF less_digits(x, y)
             THEN round_bits(b.neg, sub_digits(y, x, 0), e, FALSE)
             ELSE round_bits(a.neg, sub_digits(x, y, 0), e, FALSE)

float_neg(a) == IF a.man = <<>> THEN a ELSE [a EXCEPT !.neg = ~a.neg]

\* a - b
float_sub(a, b) == float_add(a, float_neg(b))

\* a * b
float_mul(a, b) ==
    round_bits(a.neg # b.neg, mul_digits(a.man, b.man), a.exp + b.exp, FALSE)

\* the float64 a rate column holds for the rate n: the double nearest n/10,000
rate_value(n) == to_double(n, 10000)

\* the difference taken the wrong way round
variation_reversed(rate_final, rate_initial) ==
    float_mul(float_sub(rate_value(rate_initial), rate_value(rate_final)),
              to_double(BpsFactor, 1))

\* line 68: (df["DIRateFinal"] - df["DIRateInitial"]) * 10_000, on float64
variation_of(rate_final, rate_initial) ==
    float_mul(float_sub(rate_value(rate_final), rate_value(rate_initial)),
              to_double(BpsFactor, 1))

\* line 68 for every pair of the rates of Rates, each computed once
variations == [f \in Rates |-> [i \in Rates |-> variation_of(f, i)]]

\* line 68 on the values of one row
variation_at(rate_final, rate_initial) ==
    IF rate_final \in Rates /\ rate_initial \in Rates
    THEN variations[rate_final][rate_initial]
    ELSE variation_of(rate_final, rate_initial)

\* lines 59-70: the merge, then the Variation column
calculate_variation(table_final, table_initial) ==
    LET m == merge(table_final, table_initial, "ExpirationDate")
    IN  [cols |-> m.cols \cup {"Variation"},
         rows |-> [i \in DOMAIN m.rows |->
                     m.rows[i] @@
                     ("Variation" :> variation_at(m.rows[i]["DIRateFinal"],
                                                  m.rows[i]["DIRateInitial"]))]]

\* the rows of a table format_di_dataframe returns: the date on the first of
\* a month, DIRate, and the columns lines 45-46 left as they were
NormalizedRows(extra) ==
    {MkRow(d, ra) : d \in {x \in Dates : x.day = 1},
                    ra \in [{"DIRate"} \cup extra -> Rates]}

\* the tables format_di_dataframe returns: ExpirationDate on the first of a
\* month and DIRate, and CurrentRate as well when the table fetched had both
\* rate columns
NormalizedTables ==
    UNION {{[cols |-> {"ExpirationDate", "DIRate"} \cup extra, rows |-> rs] :
              rs \in SeqsUpTo(NormalizedRows(extra), MaxRows)} :
           extra \in SUBSET {"CurrentRate"}}

(* ---------------- state ---------------- *)

VARIABLES
    pc,                 \* where the program is
    raw,                \* the table as the provider returned it, before the call
    pre_maturities,     \* the accepted maturities (LTN and NTN-F vertices)
    df,                 \* the object passed to format_di_dataframe, as it is now
    result,             \* what format_di_dataframe returned
    error,              \* "none", or the exception that ended the last step
    df_final,           \* the final snapshot, normalized
    df_start,           \* the initial snapshot, normalized
    df_var,             \* the output of calculate_variation
    bz_today,           \* today's date in Sao Paulo
    final_date,         \* the final date selected
    has_realtime_data,  \* line 193
    periodic,           \* whether the fragment is registered with run_every
    plot_calls,         \* calls of plot_graphs since the script run began
    run,                \* number of the current invocation
    script_run,         \* number of the invocation that ran the whole script
    start_fetched_run,  \* invocation in which df_start was fetched
    final_fetched_run,  \* invocation in which df_final was fetched
    fetched             \* rate columns of the last table the provider returned

fn_vars == <<raw, pre_maturities, df, result>>

var_vars == <<df_final, df_start, df_var>>

script_vars == <<bz_today, final_date, has_realtime_data, periodic, plot_calls,
                 run, script_run, start_fetched_run, final_fetched_run, fetched>>

vars == <<pc, error, fn_vars, var_vars, script_vars>>

ScriptIdle ==
    /\ bz_today = 1 /\ final_date = 1 /\ has_realtime_data = FALSE
    /\ periodic = FALSE /\ plot_calls = 0 /\ run = 0 /\ script_run = 0
    /\ start_fetched_run = 0 /\ final_fetched_run = 0 /\ fetched = {}

(* ---------------- the Normalizer, called on any table ---------------- *)

InitFormat ==
    /\ pc = "call"
    /\ raw \in RawTables
    /\ pre_maturities \in SUBSET Dates
    /\ df = raw
    /\ result = NoTable
    /\ error = "none"
    /\ df_final = NoTable /\ df_start = NoTable /\ df_var = NoTable
    /\ ScriptIdle

\* df = format_di_dataframe(df, pre_maturities), the object observed afterwards
FormatCall ==
    /\ pc = "call"
    /\ LET r == format_di_dataframe(df, pre_maturities)
       IN  /\ df' = r.df
           /\ result' = r.ret
           /\ error' = IF r.raised THEN "ValueError" ELSE "none"
    /\ pc' = "returned"
    /\ UNCHANGED <<raw, pre_maturities, var_vars, script_vars>>

NextFormat == FormatCall

SpecFormat == InitFormat /\ [][NextFormat]_vars

(* ---------------- calculate_variation, called on normalized tables ------- *)

InitVariation ==
    /\ pc = "call"
    /\ df_final \in NormalizedTables
    /\ df_start \in NormalizedTables
    /\ df_var = NoTable
    /\ error = "none"
    /\ raw = NoTable /\ pre_maturities = {} /\ df = NoTable /\ result = NoTable
    /\ ScriptIdle

VariationCall ==
    /\ pc = "call"
    /\ df_var' = calculate_variation(df_final, df_start)
    /\ pc' = "returned"
    /\ UNCHANGED <<error, df_final, df_start, fn_vars, script_vars>>

NextVariation == VariationCall

SpecVariation == InitVariation /\ [][NextVariation]_vars

(* ---------------- properties of format_di_dataframe ---------------- *)

FirstOfMonth(ts) == [year |-> ts.year, month |-> ts.month, day |-> 1]

\* the rows of the fetched table whose month is accepted, in order
KeptRaw == SelectSeq(raw.rows, LAMBDA r : FirstOfMonth(r["ExpirationDate"]) \in pre_maturities)

Returned == pc = "returned" /\ error = "none"

Raised == pc = "returned" /\ error = "ValueError"

\* C1, as claimed: the Normalizer raises exactly when the table has both
\* recognized rate columns or neither of them.
C1_RaisesUnlessExactlyOne ==
    pc = "returned" => (error = "ValueError" <=> Cardinality(RateColsOf(raw)) # 1)

\* C1, amended: the Normalizer raises exactly when the table has neither
\* recognized rate column; with both it succeeds, SettlementRate becomes DIRate
\* and CurrentRate stays a column of the output.
C1_RaisesIffNeither ==
    pc = "returned" =>
        /\ error = "ValueError" <=> RateColsOf(raw) = {}
        /\ RateColsOf(raw) = RateColumns =>
              /\ result.cols = {"ExpirationDate", "DIRate", "CurrentRate"}
              /\ Len(result.rows) = Len(KeptRaw)
              /\ \A i \in DOMAIN result.rows :
                    /\ result.rows[i]["DIRate"] = KeptRaw[i]["SettlementRate"]
                    /\ result.rows[i]["CurrentRate"] = KeptRaw[i]["CurrentRate"]

C1_Witness ==
    /\ Returned
    /\ RateColsOf(raw) = RateColumns
    /\ Len(result.rows) = 1
    /\ result.rows[1]["DIRate"] # result.rows[1]["CurrentRate"]

\* C2: for a table with exactly one recognized rate column, the output has
\* DIRate holding that column's values (of the rows kept) and has neither
\* SettlementRate nor CurrentRate.
C2_RenamedToCanonical ==
    (pc = "returned" /\ Cardinality(RateColsOf(raw)) = 1) =>
        LET old == CHOOSE c \in RateColumns : c \in raw.cols
        IN  /\ error = "none"
            /\ result.cols = {"ExpirationDate", "DIRate"}
            /\ Len(result.rows) = Len(KeptRaw)
            /\ \A i \in DOMAIN result.rows : result.rows[i]["DIRate"] = KeptRaw[i][old]

C2_Witness ==
    /\ Returned
    /\ RateColsOf(raw) = {"CurrentRate"}
    /\ Len(result.rows) = 2
    /\ result.rows[1]["DIRate"] = 800
    /\ result.rows[2]["DIRate"] = 1000

\* C3: every output row has a maturity in the accepted set, every input row
\* whose month-truncated maturity is accepted is retained, and filtering the
\* output again changes nothing.
C3_FilterByAccepted ==
    Returned =>
        /\ \A i \in DOMAIN result.rows : result.rows[i]["ExpirationDate"] \in pre_maturities
        /\ Len(result.rows) =
             Cardinality({i \in DOMAIN raw.rows :
                            FirstOfMonth(raw.rows[i]["ExpirationDate"]) \in pre_maturities})
        /\ query(result, pre_maturities) = result

C3_Witness ==
    /\ Returned
    /\ Len(raw.rows) = 2
    /\ Len(result.rows) = 1
    /\ FirstOfMonth(raw.rows[1]["ExpirationDate"]) \notin pre_maturities
    /\ result.rows[1]["ExpirationDate"] = FirstOfMonth(raw.rows[2]["ExpirationDate"])

\* C6: dates are truncated to the first of their month before the filter: a
\* row is kept exactly when the first day of its month is accepted (whether
\* its own date is accepted does not matter), and every output date is the
\* first day of the year and month of the input row it comes from.
C6_TruncateBeforeFilter ==
    Returned =>
        /\ Len(result.rows) = Len(KeptRaw)
        /\ \A i \in DOMAIN result.rows :
              LET d == result.rows[i]["ExpirationDate"]
                  x == KeptRaw[i]["ExpirationDate"]
              IN  d.day = 1 /\ d.month = x.month /\ d.year = x.year
        /\ (\A d \in pre_maturities : d.day # 1) => result.rows = <<>>

\* 2026-03-15 is kept as 2026-03-01 when only 2026-03-01 is accepted
C6_Witness ==
    /\ Returned
    /\ pre_maturities = {[year |-> 2026, month |-> 3, day |-> 1]}
    /\ Len(raw.rows) = 1
    /\ raw.rows[1]["ExpirationDate"] = [year |-> 2026, month |-> 3, day |-> 15, hour |-> 0]
    /\ Len(result.rows) = 1
    /\ result.rows[1]["ExpirationDate"] = [year |-> 2026, month |-> 3, day |-> 1]

\* C7, as claimed: after any call the object passed in is as it was before
\* the call (same columns, same rows, same dates).
C7_InputUntouched == pc = "returned" => df = raw

\* C7, amended: a failing call leaves the object passed in as it was; a
\* successful call works in place: the object passed in is then the returned
\* table itself, with DIRate in place of the rate column it had.
C7_InPlace ==
    /\ Raised => (df = raw /\ result = NoTable)
    /\ Returned => (df = result /\ df.cols # raw.cols /\ "DIRate" \in df.cols)

C7_Witness ==
    /\ Returned
    /\ df = result
    /\ Len(raw.rows) = 2
    /\ Len(df.rows) = 1
    /\ "SettlementRate" \in raw.cols
    /\ "SettlementRate" \notin df.cols

(* ---------------- properties of calculate_variation ---------------- *)

DatesOf(t) == {t.rows[i]["ExpirationDate"] : i \in DOMAIN t.rows}

DateSeq(t) == [i \in DOMAIN t.rows |-> t.rows[i]["ExpirationDate"]]

DistinctDates(t) == Cardinality(DatesOf(t)) = Len(t.rows)

Min(a, b) == IF a <= b THEN a ELSE b

\* C4: no record for a maturity absent from either input, and at most
\* min(distinct maturities of final, distinct maturities of initial) records,
\* repeated maturities included.
C4_InnerJoinBound ==
    pc = "returned" =>
        /\ DatesOf(df_var) \subseteq DatesOf(df_final) \cap DatesOf(df_start)
        /\ Len(df_var.rows) <= Min(Cardinality(DatesOf(df_final)),
                                   Cardinality(DatesOf(df_start)))

\* Variation rounded to 1/10,000 of a basis point, in that unit
fixed(v) ==
    LET n == mul_digit(v.man, 10000, 0)
        half == IF v.exp >= 0 THEN 2 * number(shift_left(n, v.exp))
                ELSE number(shift_right(n, -v.exp - 1))
        mag == (half + 1) \div 2
    IN  IF v.neg THEN -mag ELSE mag

\* the float64 nearest to n/10,000, n of either sign
decimal_value(n) ==
    IF n < 0 THEN float_neg(to_double(-n, 10000)) ELSE to_double(n, 10000)

CarriesRates(v) ==
    /\ \E j \in DOMAIN df_final.rows :
          /\ df_final.rows[j]["ExpirationDate"] = v["ExpirationDate"]
          /\ df_final.rows[j]["DIRate"] = v["DIRateFinal"]
    /\ \E j \in DOMAIN df_start.rows :
          /\ df_start.rows[j]["ExpirationDate"] = v["ExpirationDate"]
          /\ df_start.rows[j]["DIRate"] = v["DIRateInitial"]

\* C5, as claimed: every record carries a rate of the final table as
\* DIRateFinal and a rate of the initial table as DIRateInitial, both of its
\* own maturity, and Variation is (DIRateFinal - DIRateInitial) * 10,000: for
\* 0.10 and 0.08, 200.
C5_VariationExact ==
    pc = "returned" =>
        \A i \in DOMAIN df_var.rows :
            LET v == df_var.rows[i]
            IN  /\ CarriesRates(v)
                /\ v["Variation"] =
                     decimal_value((v["DIRateFinal"] - v["DIRateInitial"]) * 10000)

\* C5, amended: every record carries a rate of the final table as DIRateFinal
\* and a rate of the initial table as DIRateInitial, both of its own maturity,
\* and Variation is the float64 result of (DIRateFinal - DIRateInitial) * 10,000:
\* it has the sign of the difference, is 0 when the rates are equal, and is
\* the decimal value once rounded to 1/10,000 of a basis point.
C5_VariationBps ==
    pc = "returned" =>
        \A i \in DOMAIN df_var.rows :
            LET v == df_var.rows[i]
                diff == v["DIRateFinal"] - v["DIRateInitial"]
            IN  /\ CarriesRates(v)
                /\ v["Variation"].neg <=> diff < 0
                /\ v["Variation"] = zero <=> diff = 0
                /\ fixed(v["Variation"]) = diff * 10000

\* final 0.10 and initial 0.08 give 200.00000000000003, one unit in the last
\* place above 200, which is 200.0000 in units of 1/10,000
C5_Witness ==
    /\ pc = "returned"
    /\ Len(df_var.rows) = 1
    /\ df_final.rows[1]["DIRate"] = 1000
    /\ df_start.rows[1]["DIRate"] = 800
    /\ df_var.rows[1]["Variation"] = [neg |-> FALSE, man |-> <<1, 0, 0, 200>>, exp |-> -45]
    /\ fixed(df_var.rows[1]["Variation"]) = 200 * 10000

\* C8: when the maturities are distinct within each table, the records are
\* the final table's matching rows in the final table's order.
C8_FinalOrder ==
    (pc = "returned" /\ DistinctDates(df_final) /\ DistinctDates(df_start)) =>
        DateSeq(df_var) = SelectSeq(DateSeq(df_final), LAMBDA d : d \in DatesOf(df_start))

\* the final table lists June before March, the initial table March before June
C8_Witness ==
    /\ pc = "returned"
    /\ Len(df_var.rows) = 2
    /\ DateSeq(df_start) # DateSeq(df_final)
    /\ DateSeq(df_var) = DateSeq(df_final)
    /\ df_var.rows[1]["ExpirationDate"].month = 6
    /\ df_var.rows[2]["ExpirationDate"].month = 3

(* ---------------- the script ---------------- *)

\* most rows in a table the provider returns to the script
MaxFeedRows == 1

\* the contracts the provider lists to the script: one maturing on 2026-03-15,
\* one on 2026-06-01
FeedTimestamps == {ts \in Timestamps : (ts.month = 3) = (ts.day = 15)}

\* the rate the provider quotes to the script: 0.10
FeedRates == {r \in Rates : r >= 1000}

FeedTables ==
    UNION {RawTablesWith(rc, FeedTimestamps, FeedRates, MaxFeedRows) :
             rc \in SUBSET RateColumns}

\* the sets of bond maturities the script can load: first days of a month
FeedMaturities == SUBSET {d \in Dates : d.day = 1}

\* line 193, with "CurrentRate" taken as the sign of live data
realtime_if_current(columns) == "CurrentRate" \in columns

\* line 193
realtime_data(columns) == "SettlementRate" \notin columns

\* line 196
live_refresh(final, today, realtime) == final = today /\ realtime

\* A script run begins: the clock is read, the widgets give the dates, the
\* accepted maturities are loaded (lines 153-187).
ScriptBegins(n) ==
    /\ run' = n
    /\ script_run' = n
    /\ bz_today' \in CalendarDays
    /\ final_date' \in CalendarDays
    /\ pre_maturities' \in FeedMaturities
    /\ has_realtime_data' = FALSE
    /\ periodic' = FALSE
    /\ plot_calls' = 0
    /\ error' = "none"
    /\ df_start' = NoTable /\ df_final' = NoTable /\ df_var' = NoTable
    /\ fetched' = {}
    /\ start_fetched_run' = 0 /\ final_fetched_run' = 0
    /\ pc' = "load_start"

Init ==
    /\ pc = "load_start"
    /\ run = 1 /\ script_run = 1
    /\ bz_today \in CalendarDays
    /\ final_date \in CalendarDays
    /\ pre_maturities \in FeedMaturities
    /\ has_realtime_data = FALSE
    /\ periodic = FALSE
    /\ plot_calls = 0
    /\ error = "none"
    /\ df_start = NoTable /\ df_final = NoTable /\ df_var = NoTable
    /\ start_fetched_run = 0 /\ final_fetched_run = 0
    /\ fetched = {}
    /\ raw = NoTable /\ df = NoTable /\ result = NoTable

\* lines 189-190: the start snapshot is fetched and normalized; a ValueError
\* ends the script run there, df_start still bound to the table as fetched
LoadStart ==
    /\ pc = "load_start"
    /\ \E t \in FeedTables :
          LET r == format_di_dataframe(t, pre_maturities)
          IN  /\ fetched' = RateColsOf(t)
              /\ start_fetched_run' = run
              /\ df_start' = IF r.raised THEN t ELSE r.ret
              /\ error' = IF r.raised THEN "ValueError" ELSE "none"
              /\ pc' = IF r.raised THEN "stopped" ELSE "gate"
    /\ UNCHANGED <<fn_vars, df_final, df_var, bz_today, final_date,
                   has_realtime_data, periodic, plot_calls, run, script_run,
                   final_fetched_run>>

\* lines 192-199 and 203: the final snapshot is fetched for its columns, and
\* the fragment is registered with run_every when the refresh is live
Gate ==
    /\ pc = "gate"
    /\ \E t \in FeedTables :
          /\ fetched' = RateColsOf(t)
          /\ has_realtime_data' = realtime_data(t.cols)
          /\ periodic' = live_refresh(final_date, bz_today, realtime_data(t.cols))
    /\ pc' = "plot"
    /\ UNCHANGED <<fn_vars, var_vars, error, bz_today, final_date, plot_calls,
                   run, script_run, start_fetched_run, final_fetched_run>>

\* plot_graphs with the final snapshot of an earlier call kept
PlotGraphsCached ==
    /\ plot_calls' = plot_calls + 1
    /\ IF df_final # NoTable
       THEN /\ df_var' = calculate_variation(df_final, df_start)
            /\ UNCHANGED <<df_final, final_fetched_run, fetched, error>>
       ELSE \E t \in FeedTables :
              LET r == format_di_dataframe(t, pre_maturities)
              IN  /\ fetched' = RateColsOf(t)
                  /\ final_fetched_run' = run'
                  /\ error' = IF r.raised THEN "ValueError" ELSE "none"
                  /\ df_final' = r.ret
                  /\ df_var' = IF r.raised THEN NoTable
                               ELSE calculate_variation(r.ret, df_start)

\* lines 129-140: the final snapshot is fetched and normalized, the variation
\* is computed against the df_start of the script run; a ValueError of the
\* Normalizer ends the call
PlotGraphs ==
    /\ plot_calls' = plot_calls + 1
    /\ \E t \in FeedTables :
          LET r == format_di_dataframe(t, pre_maturities)
          IN  /\ fetched' = RateColsOf(t)
              /\ final_fetched_run' = run'
              /\ error' = IF r.raised THEN "ValueError" ELSE "none"
              /\ df_final' = r.ret
              /\ df_var' = IF r.raised THEN NoTable
                           ELSE calculate_variation(r.ret, df_start)

\* lines 202 and 204: the call of plot_graphs the script run makes
FirstPlot ==
    /\ pc = "plot"
    /\ run' = run
    /\ PlotGraphs
    /\ pc' = "idle"
    /\ UNCHANGED <<fn_vars, df_start, bz_today, final_date, has_realtime_data,
                   periodic, script_run, start_fetched_run>>

\* lines 198-200: run_every re-executes the fragment, and only the fragment
PeriodicRerun ==
    /\ pc = "idle"
    /\ periodic
    /\ run < MaxRuns
    /\ run' = run + 1
    /\ PlotGraphs
    /\ pc' = "idle"
    /\ UNCHANGED <<fn_vars, df_start, bz_today, final_date, has_realtime_data,
                   periodic, script_run, start_fetched_run>>

\* the user changes a date, or reloads: the whole script runs again
ScriptRerun ==
    /\ pc \in {"idle", "stopped"}
    /\ run < MaxRuns
    /\ ScriptBegins(run + 1)
    /\ UNCHANGED <<raw, df, result>>

Next == LoadStart \/ Gate \/ FirstPlot \/ PeriodicRerun \/ ScriptRerun

Spec == Init /\ [][Next]_vars

(* ---------------- properties of the script ---------------- *)

\* C9, as claimed: whenever plot_graphs has run, the final and the start
\* snapshot it used were both fetched and normalized in that same invocation.
C9_AllFetchedThisInvocation ==
    pc = "idle" => (final_fetched_run = run /\ start_fetched_run = run)

\* C9, amended: whenever plot_graphs has run, the final snapshot was fetched
\* and normalized in that same invocation, and the start snapshot is the one
\* fetched and normalized by the script run the invocation belongs to: a
\* periodic re-execution reuses it.
C9_FinalFreshStartOfScriptRun ==
    pc = "idle" =>
        /\ final_fetched_run = run
        /\ start_fetched_run = script_run
        /\ script_run <= run
        /\ error = "none" => df_var = calculate_variation(df_final, df_start)

\* a periodic re-execution that plotted against the start snapshot of an
\* earlier invocation
C9_Witness ==
    /\ pc = "idle"
    /\ error = "none"
    /\ run = script_run + 2
    /\ final_fetched_run = run
    /\ start_fetched_run = script_run
    /\ Len(df_var.rows) > 0

RunEnded == pc \in {"idle", "stopped"}

\* C10, as claimed: in every script run the periodic refresh is installed
\* exactly when the final date is today and the final snapshot has no
\* SettlementRate column, and in every other case plot_graphs is executed
\* exactly once.
C10_GateInEveryRun ==
    RunEnded =>
        /\ periodic <=> (final_date = bz_today /\ has_realtime_data)
        /\ ~periodic => plot_calls = 1

\* C10, amended: a script run whose start snapshot has neither rate column
\* stops with the Normalizer's error before the gate, with no refresh installed
\* and plot_graphs not executed. In every other script run the periodic refresh
\* is installed exactly when the final date is today and the final snapshot
\* fetched at the gate has no SettlementRate column (so also when it has neither
\* rate column); otherwise plot_graphs is executed exactly once. An execution of
\* plot_graphs that fetches a snapshot with neither rate column ends in the
\* Normalizer's error.
C10_GateWhenReached ==
    /\ pc = "stopped" =>
          (error = "ValueError" /\ fetched = {} /\ ~periodic /\ plot_calls = 0)
    /\ pc = "plot" =>
          /\ has_realtime_data <=> "SettlementRate" \notin fetched
          /\ plot_calls = 0
    /\ pc \in {"plot", "idle"} =>
          (periodic <=> (final_date = bz_today /\ has_realtime_data))
    /\ pc = "idle" =>
          /\ ~periodic => (plot_calls = 1 /\ run = script_run)
          /\ periodic => plot_calls = 1 + (run - script_run)
          /\ error = "ValueError" <=> fetched = {}

\* a live run whose refresh fetched a table with neither rate column
C10_Witness ==
    /\ pc = "idle"
    /\ periodic
    /\ final_date = bz_today
    /\ plot_calls = 2
    /\ fetched = {}
    /\ error = "ValueError"

====
